---- MODULE Spec2Model ----
(***************************************************************************)
(* A model of goheap, the Refheap API client: the Config constructor, the  *)
(* Paste record, the response decoder parseBody and the six operations     *)
(* Get, Create, Save, Delete, Fork and GetHighlighted.                     *)
(*                                                                         *)
(* Three specifications share the variables:                               *)
(*   SpecNewConfig  NewConfig applied to bounded argument lists;           *)
(*   Spec           the operations against a transport that may fail and a *)
(*                  peer that may answer with any body of a bounded set;   *)
(*   SpecService    the operations against a service that stores what it   *)
(*                  is sent and answers as the wire protocol describes.    *)
(***************************************************************************)
EXTENDS Integers, Sequences, FiniteSets, TLC

VARIABLES
    config,     \* the caller's Config
    paste,      \* the caller's Paste record (operations mutate it in place)
    op,         \* the operation of the last call, "none" before the first
    before,     \* the Paste record as it was when the last call started
    request,    \* the request the last call sent
    response,   \* what the transport gave back to the last call
    err,        \* the error the last call returned
    hl,         \* the highlightedPaste the last call returned
    toNil,      \* whether the last call's parseBody ran with a nil destination
    crashed,    \* the last call panicked instead of returning
    bodyState,  \* the last call's response body: "none", "open" or "closed"
    calls,      \* number of calls made so far
    store,      \* the service's pastes, by identifier
    nextId,     \* the service's next free identifier
    sent,       \* history: by identifier, what the Create that made it sent
    deleted,    \* history: the identifiers whose Delete returned success
    args,       \* NewConfig's argument list
    ncConfig,   \* NewConfig's returned Config
    ncErr,      \* NewConfig's returned error
    ncDone      \* NewConfig has returned

vars == <<config, paste, op, before, request, response, err, hl, toNil, crashed,
          bodyState, calls, store, nextId, sent, deleted, args, ncConfig, ncErr,
          ncDone>>

clientVars == <<config, paste, op, before, request, response, err, hl, toNil,
                crashed, bodyState, calls>>
serviceVars == <<store, nextId, sent, deleted>>
ncVars == <<args, ncConfig, ncErr, ncDone>>

----------------------------------------------------------------------------
(* Bounds *)

\* longest argument list handed to NewConfig
MaxArgs == 4
\* calls made in one behaviour of Spec
MaxCalls == 1
\* calls made in one behaviour of SpecService
MaxServiceCalls == 3
\* pastes the service creates in one behaviour
MaxPastes == 2

----------------------------------------------------------------------------
(* Errors *)

MkErr(type, msg, as) == [type |-> type, ErrorMessage |-> msg, Args |-> as]

NilErr == MkErr("nil", "", <<>>)

\* err = &ConfigError{args}
ConfigError(as) == MkErr("ConfigError", "", as)

\* RefheapError{ErrorMessage}
RefheapError(msg) == MkErr("RefheapError", msg, <<>>)

\* the error http.Get, http.PostForm or Client.Do returns with no response
TransportErr == MkErr("transport", "", <<>>)

\* the error ioutil.ReadAll returns
ReadErr == MkErr("read", "", <<>>)

\* *json.SyntaxError: the body is not JSON
SyntaxErr == MkErr("json.SyntaxError", "", <<>>)

\* *json.UnmarshalTypeError: a JSON value does not fit its Go destination
TypeErr == MkErr("json.UnmarshalTypeError", "", <<>>)

----------------------------------------------------------------------------
(* Config *)

RefheapURL == "https://www.refheap.com/api"

Config(url, user, key) == [URL |-> url, User |-> user, Key |-> key]

\* the zero value of Config
ZeroConfig == Config("", "", "")

NewConfigNoDefault(as) ==
    CASE Len(as) = 0 -> [config |-> Config(RefheapURL, "", ""), err |-> NilErr]
      [] Len(as) = 1 -> [config |-> Config(as[1], "", ""), err |-> NilErr]
      [] Len(as) = 2 -> [config |-> Config(RefheapURL, as[1], as[2]), err |-> NilErr]
      [] OTHER       -> [config |-> Config(as[1], as[2], as[3]), err |-> NilErr]

NewConfigSwapped(as) ==
    CASE Len(as) = 0 -> [config |-> Config(RefheapURL, "", ""), err |-> NilErr]
      [] Len(as) = 1 -> [config |-> Config(as[1], "", ""), err |-> NilErr]
      [] Len(as) = 2 -> [config |-> Config(RefheapURL, as[2], as[1]), err |-> NilErr]
      [] Len(as) = 3 -> [config |-> Config(as[1], as[2], as[3]), err |-> NilErr]
      [] OTHER       -> [config |-> ZeroConfig, err |-> ConfigError(as)]

\* func NewConfig(args ...string) (config Config, err error)
NewConfig(as) ==
    CASE Len(as) = 0 -> [config |-> Config(RefheapURL, "", ""), err |-> NilErr]
      [] Len(as) = 1 -> [config |-> Config(as[1], "", ""), err |-> NilErr]
      [] Len(as) = 2 -> [config |-> Config(RefheapURL, as[1], as[2]), err |-> NilErr]
      [] Len(as) = 3 -> [config |-> Config(as[1], as[2], as[3]), err |-> NilErr]
      [] OTHER       -> [config |-> ZeroConfig, err |-> ConfigError(as)]

----------------------------------------------------------------------------
(* Paste *)

PasteFields == {"Lines", "Views", "Date", "ID", "Language", "Private", "URL",
                "User", "Contents"}

\* the json tag of each field of Paste
PasteKey == [Lines |-> "lines", Views |-> "views", Date |-> "date",
             ID |-> "paste-id", Language |-> "language", Private |-> "private",
             URL |-> "url", User |-> "user", Contents |-> "contents"]

\* the JSON type each field's Go type accepts: int, string, bool
PasteType == [Lines |-> "num", Views |-> "num", Date |-> "str", ID |-> "str",
              Language |-> "str", Private |-> "bool", URL |-> "str",
              User |-> "str", Contents |-> "str"]

\* the zero value of Paste
ZeroPaste == [Lines |-> 0, Views |-> 0, Date |-> "", ID |-> "", Language |-> "",
              Private |-> FALSE, URL |-> "", User |-> "", Contents |-> ""]

\* type highlightedPaste struct { Content string }
ZeroHighlighted == [Content |-> ""]

----------------------------------------------------------------------------
(* JSON bodies.  A JSON value is <<"absent">> (the key is not in the object), *)
(* <<"null">>, <<"str", s>>, <<"num", n>> or <<"bool", b>>.  A body is       *)
(* malformed text, the literal null, another non-object value (an array, a  *)
(* number, a string, a boolean), or an object: a value for every key.       *)

Absent == <<"absent">>
Null == <<"null">>
Str(s) == <<"str", s>>
Num(n) == <<"num", n>>
Bool(b) == <<"bool", b>>

JsonKeys == {"lines", "views", "date", "paste-id", "language", "private", "url",
             "user", "contents", "error", "content"}

NoFields == [k \in JsonKeys |-> Absent]

Malformed == [kind |-> "malformed", fields |-> NoFields]
NullBody == [kind |-> "null", fields |-> NoFields]
NonObject == [kind |-> "nonobject", fields |-> NoFields]
Object(fs) == [kind |-> "object", fields |-> fs]

\* the object fs with key k set to the JSON value v
With(fs, k, v) == [fs EXCEPT ![k] = v]

\* encoding/json storing one JSON value into a Go field of the given type: a
\* missing key and a null leave the field as it is, a value of the field's
\* type is stored, and a value of another type is skipped
DecodeField(old, jv, type) == IF jv[1] = type THEN jv[2] ELSE old

\* ... and is reported as an UnmarshalTypeError
Misfit(jv, type) == jv[1] \notin {"absent", "null", type}

\* json.Unmarshal(body, v) for a struct v whose fields have the given keys and
\* types: invalid text is rejected before anything is stored; null stores
\* nothing; a non-object cannot be stored into a struct; an object is stored
\* field by field, the decoding going on past a field that does not fit
Unmarshal(body, v, keys, types) ==
    CASE body.kind = "malformed" -> [val |-> v, err |-> SyntaxErr]
      [] body.kind = "null"      -> [val |-> v, err |-> NilErr]
      [] body.kind = "nonobject" -> [val |-> v, err |-> TypeErr]
      [] OTHER ->
           [val |-> [f \in DOMAIN v |->
                        DecodeField(v[f], body.fields[keys[f]], types[f])],
            err |-> IF \E f \in DOMAIN v : Misfit(body.fields[keys[f]], types[f])
                    THEN TypeErr ELSE NilErr]

\* json.Unmarshal(body, &newErr), newErr a zero RefheapError
UnmarshalRefheapError(body) ==
    Unmarshal(body, [ErrorMessage |-> ""], [ErrorMessage |-> "error"],
              [ErrorMessage |-> "str"])

\* json.Unmarshal(body, paste)
UnmarshalPaste(body, p) == Unmarshal(body, p, PasteKey, PasteType)

\* json.Unmarshal(body, &s), s a highlightedPaste
UnmarshalHighlighted(body, s) ==
    Unmarshal(body, s, [Content |-> "content"], [Content |-> "str"])

----------------------------------------------------------------------------
(* Responses *)

\* the status Delete takes for success
StatusNoContent == 204

\* what the transport hands back: got is FALSE when it failed (resp == nil and
\* err != nil); readOk is whether ioutil.ReadAll reads the body to its end
Response(status, readOk, body) ==
    [got |-> TRUE, StatusCode |-> status, readOk |-> readOk, body |-> body]

NoResponse == [got |-> FALSE, StatusCode |-> 0, readOk |-> FALSE, body |-> Malformed]

\* func readBody(resp) (body, err): the body is closed on return
readBody(resp) == [body |-> resp.body, err |-> IF resp.readOk THEN NilErr ELSE ReadErr]

parseBodyIgnoringError(resp, to, p, s) ==
    LET rd == readBody(resp) IN
    IF rd.err # NilErr THEN [err |-> rd.err, paste |-> p, hl |-> s]
    ELSE IF to = "paste"
         THEN LET r == UnmarshalPaste(rd.body, p) IN
              [err |-> r.err, paste |-> r.val, hl |-> s]
         ELSE IF to = "highlight"
         THEN LET r == UnmarshalHighlighted(rd.body, s) IN
              [err |-> r.err, paste |-> p, hl |-> r.val]
         ELSE [err |-> NilErr, paste |-> p, hl |-> s]

\* func parseBody(resp, to) (err error); to is "paste" (the Paste p),
\* "highlight" (the highlightedPaste s) or "nil"
parseBody(resp, to, p, s) ==
    LET rd == readBody(resp) IN
    IF rd.err # NilErr THEN [err |-> rd.err, paste |-> p, hl |-> s]
    ELSE LET newErr == UnmarshalRefheapError(rd.body) IN
         IF newErr.err # NilErr THEN [err |-> newErr.err, paste |-> p, hl |-> s]
         ELSE IF newErr.val.ErrorMessage # ""
         THEN [err |-> RefheapError(newErr.val.ErrorMessage), paste |-> p, hl |-> s]
         ELSE IF to = "paste"
         THEN LET r == UnmarshalPaste(rd.body, p) IN
              [err |-> r.err, paste |-> r.val, hl |-> s]
         ELSE IF to = "highlight"
         THEN LET r == UnmarshalHighlighted(rd.body, s) IN
              [err |-> r.err, paste |-> p, hl |-> r.val]
         ELSE [err |-> NilErr, paste |-> p, hl |-> s]

----------------------------------------------------------------------------
(* Requests.  url.Values maps a key to the list of values added under it. *)

\* url.Values{}
NoValues == <<>>

\* func (v Values) Add(key, value string)
Add(data, key, value) ==
    [k \in DOMAIN data \cup {key} |->
        IF k = key
        THEN (IF key \in DOMAIN data THEN Append(data[key], value) ELSE <<value>>)
        ELSE data[k]]

\* the keys this client adds, in the order Values.Encode writes them (sorted)
SortedKeys == <<"contents", "id", "language", "private", "token", "username">>

\* "key=value" for every value of a key, joined by "&" (the model's values
\* hold no character that QueryEscape rewrites)
RECURSIVE EncodeKey(_, _, _)
EncodeKey(key, values, i) ==
    IF i > Len(values) THEN ""
    ELSE (IF i > 1 THEN "&" ELSE "") \o key \o "=" \o values[i]
         \o EncodeKey(key, values, i + 1)

\* func (v Values) Encode() string
RECURSIVE EncodeFrom(_, _, _)
EncodeFrom(data, i, first) ==
    IF i > Len(SortedKeys) THEN ""
    ELSE IF SortedKeys[i] \in DOMAIN data
    THEN (IF first THEN "" ELSE "&") \o EncodeKey(SortedKeys[i], data[SortedKeys[i]], 1)
         \o EncodeFrom(data, i + 1, FALSE)
    ELSE EncodeFrom(data, i + 1, first)

Encode(data) == EncodeFrom(data, 1, TRUE)

\* strconv.FormatBool
FormatBool(b) == IF b THEN "true" ELSE "false"

addAuthByKey(data, cfg) ==
    IF cfg.Key # ""
    THEN Add(Add(data, "username", cfg.User), "token", cfg.Key)
    ELSE data

\* func addAuth(data *url.Values, config *Config)
addAuth(data, cfg) ==
    IF cfg.User # ""
    THEN Add(Add(data, "username", cfg.User), "token", cfg.Key)
    ELSE data

\* a request: http.Get sends no form, http.PostForm sends data as the body
Request(method, url, form) == [method |-> method, url |-> url, form |-> form]

NoRequest == Request("", "", NoValues)

\* the result of a call: the error returned, the Paste and the
\* highlightedPaste after it, whether it panicked, what became of the
\* response body, whether parseBody ran with a nil destination
Return(r, closed, nilTo) ==
    [err |-> r.err, paste |-> r.paste, hl |-> r.hl, crashed |-> FALSE,
     bodyState |-> closed, toNil |-> nilTo]

Unparsed(e, p) == [err |-> e, paste |-> p, hl |-> ZeroHighlighted]

----------------------------------------------------------------------------
(* The operations: the request each sends, and what each returns for the   *)
(* response the transport gives.                                           *)

\* Paste.Get: http.Get(config.URL + "/paste/" + paste.ID)
GetRequest(cfg, p) == Request("GET", cfg.URL \o "/paste/" \o p.ID, NoValues)

\* func (paste *Paste) Get(config *Config) (err error)
GetReturn(cfg, p, resp) ==
    IF resp.got
    THEN Return(parseBody(resp, "paste", p, ZeroHighlighted), "closed", FALSE)
    ELSE Return(Unparsed(TransportErr, p), "none", FALSE)

createOrSaveFormNoContents(cfg, p) ==
    LET d1 == addAuth(NoValues, cfg)
        d3 == IF p.Language # "" THEN Add(d1, "language", p.Language) ELSE d1
    IN  Add(d3, "private", FormatBool(p.Private))

createOrSaveFormPrivateIfSet(cfg, p) ==
    LET d1 == addAuth(NoValues, cfg)
        d2 == IF p.Contents # "" THEN Add(d1, "contents", p.Contents) ELSE d1
        d3 == IF p.Language # "" THEN Add(d2, "language", p.Language) ELSE d2
    IN  IF p.Private THEN Add(d3, "private", FormatBool(p.Private)) ELSE d3

\* createOrSave: the form it posts
createOrSaveForm(cfg, p) ==
    LET d1 == addAuth(NoValues, cfg)
        d2 == IF p.Contents # "" THEN Add(d1, "contents", p.Contents) ELSE d1
        d3 == IF p.Language # "" THEN Add(d2, "language", p.Language) ELSE d2
    IN  Add(d3, "private", FormatBool(p.Private))

\* func (paste *Paste) createOrSave(endpoint string, config *Config) (err error)
createOrSaveRequest(endpoint, cfg, p) == Request("POST", endpoint, createOrSaveForm(cfg, p))

createOrSaveReturn(cfg, p, resp) ==
    IF ~resp.got
    THEN Return(Unparsed(TransportErr, p), "none", FALSE)
    ELSE Return(parseBody(resp, "paste", p, ZeroHighlighted), "closed", FALSE)

\* func (paste *Paste) Create(config *Config) error
CreateRequest(cfg, p) == createOrSaveRequest(cfg.URL \o "/paste", cfg, p)
CreateReturn(cfg, p, resp) == createOrSaveReturn(cfg, p, resp)

\* func (paste *Paste) Save(config *Config) (err error)
SaveRequest(cfg, p) == createOrSaveRequest(cfg.URL \o "/paste/" \o p.ID, cfg, p)
SaveReturn(cfg, p, resp) == createOrSaveReturn(cfg, p, resp)

\* Paste.Delete: a DELETE of "%v/paste/%v?%v" with the auth values encoded
DeleteRequest(cfg, p) ==
    Request("DELETE",
            cfg.URL \o "/paste/" \o p.ID \o "?" \o Encode(addAuth(NoValues, cfg)),
            NoValues)

DeleteReturnStatusBlind(cfg, p, resp) ==
    IF ~resp.got
    THEN [err |-> TransportErr, paste |-> p, hl |-> ZeroHighlighted,
          crashed |-> TRUE, bodyState |-> "none", toNil |-> FALSE]
    ELSE Return(Unparsed(NilErr, p), "open", FALSE)

\* func (paste *Paste) Delete(config *Config) (err error): resp.StatusCode is
\* read whatever err is, and resp is nil when the transport failed, so the
\* call panics; the body of a 204 response is neither read nor closed
DeleteReturn(cfg, p, resp) ==
    IF ~resp.got
    THEN [err |-> TransportErr, paste |-> p, hl |-> ZeroHighlighted,
          crashed |-> TRUE, bodyState |-> "none", toNil |-> FALSE]
    ELSE IF resp.StatusCode # StatusNoContent
    THEN Return(parseBody(resp, "nil", p, ZeroHighlighted), "closed", TRUE)
    ELSE Return(Unparsed(NilErr, p), "open", FALSE)

\* Paste.Fork: the form it posts to "%v/paste/%v/fork"
ForkRequest(cfg, p) ==
    Request("POST", cfg.URL \o "/paste/" \o p.ID \o "/fork",
            Add(addAuth(NoValues, cfg), "id", p.ID))

\* func (paste *Paste) Fork(config *Config) (err error)
ForkReturn(cfg, p, resp) ==
    IF ~resp.got
    THEN Return(Unparsed(TransportErr, p), "none", FALSE)
    ELSE Return(parseBody(resp, "paste", p, ZeroHighlighted), "closed", FALSE)

\* Paste.GetHighlighted: http.Get(config.URL + "/paste/" + paste.ID + "/highlight")
GetHighlightedRequest(cfg, p) ==
    Request("GET", cfg.URL \o "/paste/" \o p.ID \o "/highlight", NoValues)

GetHighlightedReturnIntoPaste(cfg, p, resp) ==
    IF ~resp.got
    THEN Return(Unparsed(TransportErr, p), "none", FALSE)
    ELSE Return(parseBody(resp, "paste", p, ZeroHighlighted), "closed", FALSE)

\* func (paste *Paste) GetHighlighted(config *Config) (s highlightedPaste, err error)
GetHighlightedReturn(cfg, p, resp) ==
    IF ~resp.got
    THEN Return(Unparsed(TransportErr, p), "none", FALSE)
    ELSE Return(parseBody(resp, "highlight", p, ZeroHighlighted), "closed", FALSE)

OpRequest(o, cfg, p) ==
    CASE o = "Get" -> GetRequest(cfg, p)
      [] o = "Create" -> CreateRequest(cfg, p)
      [] o = "Save" -> SaveRequest(cfg, p)
      [] o = "Delete" -> DeleteRequest(cfg, p)
      [] o = "Fork" -> ForkRequest(cfg, p)
      [] o = "GetHighlighted" -> GetHighlightedRequest(cfg, p)

OpReturn(o, cfg, p, resp) ==
    CASE o = "Get" -> GetReturn(cfg, p, resp)
      [] o = "Create" -> CreateReturn(cfg, p, resp)
      [] o = "Save" -> SaveReturn(cfg, p, resp)
      [] o = "Delete" -> DeleteReturn(cfg, p, resp)
      [] o = "Fork" -> ForkReturn(cfg, p, resp)
      [] o = "GetHighlighted" -> GetHighlightedReturn(cfg, p, resp)

\* one call of operation o, the transport giving resp: the caller's record
\* is updated in place and the results are returned
Call(o, resp) ==
    LET r == OpReturn(o, config, paste, resp) IN
    /\ ~crashed
    /\ op' = o
    /\ before' = paste
    /\ request' = OpRequest(o, config, paste)
    /\ response' = resp
    /\ paste' = r.paste
    /\ err' = r.err
    /\ hl' = r.hl
    /\ toNil' = r.toNil
    /\ crashed' = r.crashed
    /\ bodyState' = r.bodyState
    /\ calls' = calls + 1
    /\ UNCHANGED config

----------------------------------------------------------------------------
(* The caller's values *)

\* the Configs of the model: anonymous, authenticated, and the two with one
\* of User and Key empty
Configs == {Config(RefheapURL, u, k) : u \in {"", "raynes"}, k \in {"", "123"}}

\* a record the caller got from an earlier call and kept
FetchedPaste == [Lines |-> 2, Views |-> 5, Date |-> "2013-06-01T00:00:00.000Z",
                 ID |-> "7", Language |-> "Go", Private |-> TRUE,
                 URL |-> "https://www.refheap.com/7", User |-> "bob",
                 Contents |-> "old"]

\* the records the caller builds before a call
CallerPastes ==
    { [ZeroPaste EXCEPT !.Private = TRUE, !.Contents = "hi", !.Language = "Go"],
      [ZeroPaste EXCEPT !.ID = "30000"],
      FetchedPaste }

IdleClient ==
    /\ op = "none"
    /\ before = paste
    /\ request = NoRequest
    /\ response = NoResponse
    /\ err = NilErr
    /\ hl = ZeroHighlighted
    /\ toNil = FALSE
    /\ crashed = FALSE
    /\ bodyState = "none"
    /\ calls = 0

IdleService == store = <<>> /\ nextId = 1 /\ sent = <<>> /\ deleted = {}

IdleNewConfig ==
    /\ args = <<>>
    /\ ncConfig = ZeroConfig
    /\ ncErr = NilErr
    /\ ncDone = FALSE

----------------------------------------------------------------------------
(* SpecNewConfig: NewConfig applied to every argument list of the bounds *)

ArgStrings == {"", "foo", "raynes"}

ArgLists == UNION {[1..n -> ArgStrings] : n \in 0..MaxArgs}

InitNewConfig ==
    /\ args \in ArgLists
    /\ ncConfig = ZeroConfig
    /\ ncErr = NilErr
    /\ ncDone = FALSE
    /\ config = ZeroConfig
    /\ paste = ZeroPaste
    /\ IdleClient
    /\ IdleService

\* config, err := NewConfig(args...)
CallNewConfig ==
    /\ ~ncDone
    /\ ncConfig' = NewConfig(args).config
    /\ ncErr' = NewConfig(args).err
    /\ ncDone' = TRUE
    /\ UNCHANGED <<args, clientVars, serviceVars>>

NextNewConfig == CallNewConfig

SpecNewConfig == InitNewConfig /\ [][NextNewConfig]_vars

----------------------------------------------------------------------------
(* Spec: the operations against any peer.  The transport fails, or gives a *)
(* response whose body cannot be read to its end, or gives a response with *)
(* one of the bodies below.                                                *)

PasteKeys == {PasteKey[f] : f \in PasteFields}

\* the paste of the tests' GetPaste(&config, "1")
GoodFields ==
    [k \in JsonKeys |->
        CASE k = "lines" -> Num(1)
          [] k = "views" -> Num(3)
          [] k = "date" -> Str("2012-01-04T01:44:22.964Z")
          [] k = "paste-id" -> Str("1")
          [] k = "language" -> Str("Clojure")
          [] k = "private" -> Bool(FALSE)
          [] k = "url" -> Str("https://www.refheap.com/1")
          [] k = "user" -> Str("raynes")
          [] k = "contents" -> Str("(begin)")
          [] OTHER -> Absent]

\* a JSON value of a type the field of key k does not take
WrongType(k) == IF k \in {"lines", "views", "private"} THEN Str("x") ELSE Num(5)

\* a whole paste, a paste with one key missing, null or of the wrong type,
\* and the empty object
PasteBodies ==
    {Object(GoodFields), Object(NoFields)}
    \cup {Object(With(GoodFields, k, v)) :
            k \in PasteKeys, v \in {Absent, Null}}
    \cup {Object(With(GoodFields, k, WrongType(k))) : k \in PasteKeys}

\* bodies with an error key: the service's error object, a paste that also
\* carries a message, and pastes whose error is empty, null or no string
ErrorBodies ==
    {Object(With(fs, "error", Str("Paste does not exist."))) :
        fs \in {NoFields, GoodFields}}
    \cup {Object(With(GoodFields, "error", v)) : v \in {Str(""), Null, Num(5)}}

HighlightBodies ==
    {Object(With(NoFields, "content", v)) : v \in {Str("<pre>(begin)</pre>"), Num(5)}}

Bodies == {Malformed, NullBody, NonObject} \cup PasteBodies \cup ErrorBodies
          \cup HighlightBodies

Statuses == {200, StatusNoContent}

Outcomes ==
    {NoResponse}
    \cup {Response(st, TRUE, b) : st \in Statuses, b \in Bodies}
    \cup {Response(st, FALSE, Malformed) : st \in Statuses}

Init ==
    /\ config \in Configs
    /\ paste \in CallerPastes
    /\ IdleClient
    /\ IdleService
    /\ IdleNewConfig

Get ==
    /\ calls < MaxCalls
    /\ \E resp \in Outcomes : Call("Get", resp)
    /\ UNCHANGED <<serviceVars, ncVars>>

Create ==
    /\ calls < MaxCalls
    /\ \E resp \in Outcomes : Call("Create", resp)
    /\ UNCHANGED <<serviceVars, ncVars>>

Save ==
    /\ calls < MaxCalls
    /\ \E resp \in Outcomes : Call("Save", resp)
    /\ UNCHANGED <<serviceVars, ncVars>>

Delete ==
    /\ calls < MaxCalls
    /\ \E resp \in Outcomes : Call("Delete", resp)
    /\ UNCHANGED <<serviceVars, ncVars>>

Fork ==
    /\ calls < MaxCalls
    /\ \E resp \in Outcomes : Call("Fork", resp)
    /\ UNCHANGED <<serviceVars, ncVars>>

GetHighlighted ==
    /\ calls < MaxCalls
    /\ \E resp \in Outcomes : Call("GetHighlighted", resp)
    /\ UNCHANGED <<serviceVars, ncVars>>

Next == Get \/ Create \/ Save \/ Delete \/ Fork \/ GetHighlighted

Spec == Init /\ [][Next]_vars

----------------------------------------------------------------------------
(* SpecService: the operations against a service that stores what it is    *)
(* sent.  The service is the wire protocol's: it answers every request,    *)
(* with a whole paste, with {"content": ...}, with 204 and no body, or     *)
(* with {"error": ...}.                                                    *)

\* the service's accounts: user and token
Accounts == {<<"raynes", "123">>}

\* the identifier of the service's n-th paste
IdNames == <<"1", "2", "3", "4", "5", "6", "7", "8", "9">>
IdName(n) == IdNames[n]

\* the identifiers a request may name
IdUniverse == {p.ID : p \in CallerPastes} \cup {IdNames[n] : n \in DOMAIN IdNames}

\* the credentials a DELETE's query may carry
QueryCredentials == {<<c.User, c.Key>> : c \in Configs}

FormValue(form, k) == IF k \in DOMAIN form THEN form[k][1] ELSE ""

\* who a request's credentials are: "" for none, "?" for ones no account has
Authenticate(user, token, given) ==
    IF ~given THEN ""
    ELSE IF <<user, token>> \in Accounts THEN user ELSE "?"

FormAuth(form) ==
    Authenticate(FormValue(form, "username"), FormValue(form, "token"),
                 "username" \in DOMAIN form)

\* the URL of each route for paste i, and of a DELETE with credentials c
RouteUrl(route, i) ==
    CASE route = "create" -> RefheapURL \o "/paste"
      [] route = "highlight" -> RefheapURL \o "/paste/" \o i \o "/highlight"
      [] route = "fork" -> RefheapURL \o "/paste/" \o i \o "/fork"
      [] OTHER -> RefheapURL \o "/paste/" \o i

DeleteUrl(i, c) ==
    RouteUrl("delete", i) \o "?"
    \o (IF c[1] = "" THEN "" ELSE "token=" \o c[2] \o "&username=" \o c[1])

\* what a request asks for: the route, the paste it names, who asks
Routes(req) ==
    IF req.method = "DELETE"
    THEN {[route |-> "delete", id |-> i, who |-> Authenticate(c[1], c[2], c[1] # "")] :
            <<i, c>> \in {x \in IdUniverse \X QueryCredentials :
                            req.url = DeleteUrl(x[1], x[2])}}
    ELSE IF req.method = "GET"
    THEN {[route |-> x[1], id |-> x[2], who |-> ""] :
            x \in {y \in {"fetch", "highlight"} \X IdUniverse :
                     req.url = RouteUrl(y[1], y[2])}}
    ELSE {[route |-> x[1], id |-> x[2], who |-> FormAuth(req.form)] :
            x \in {y \in ({"edit", "fork"} \X IdUniverse) \cup {<<"create", "">>} :
                     req.url = RouteUrl(y[1], y[2])}}

Route(req) ==
    LET rs == Routes(req) IN
    IF rs = {} THEN [route |-> "none", id |-> "", who |-> ""]
    ELSE CHOOSE r \in rs : TRUE

\* the JSON of a stored paste
PasteJson(id, st) ==
    [k \in JsonKeys |->
        CASE k = "lines" -> Num(IF st.contents = "" THEN 0 ELSE 1)
          [] k = "views" -> Num(st.views)
          [] k = "date" -> Str("2013-06-01T00:00:00.000Z")
          [] k = "paste-id" -> Str(id)
          [] k = "language" -> Str(st.language)
          [] k = "private" -> Bool(st.private)
          [] k = "url" -> Str("https://www.refheap.com/" \o id)
          [] k = "user" -> Str(st.user)
          [] k = "contents" -> Str(st.contents)
          [] OTHER -> Absent]

ServiceError(status, msg) ==
    Response(status, TRUE, Object(With(NoFields, "error", Str(msg))))

\* the store with paste id set to st
Put(sto, id, st) == [i \in DOMAIN sto \cup {id} |-> IF i = id THEN st ELSE sto[i]]

\* the store without paste id
Drop(sto, id) == [i \in DOMAIN sto \ {id} |-> sto[i]]

Answer(resp, sto, nid) == [response |-> resp, store |-> sto, nextId |-> nid]

\* the service's answer to a request routed as r, and its store after it
Serve(r, req, sto, nid) ==
    LET found == r.id \in DOMAIN sto
        missing == Answer(ServiceError(404, "Paste does not exist."), sto, nid)
        refused == Answer(ServiceError(401, "Bad credentials."), sto, nid)
    IN
    CASE r.route = "none" -> Answer(ServiceError(404, "Not found."), sto, nid)
      [] r.who = "?" -> refused
      [] r.route = "create" ->
           LET id == IdName(nid)
               st == [contents |-> FormValue(req.form, "contents"),
                      language |-> FormValue(req.form, "language"),
                      private |-> FormValue(req.form, "private") = "true",
                      user |-> r.who, views |-> 0]
           IN  Answer(Response(201, TRUE, Object(PasteJson(id, st))),
                      Put(sto, id, st), nid + 1)
      [] r.route = "fetch" ->
           IF ~found THEN missing
           ELSE LET st == [sto[r.id] EXCEPT !.views = @ + 1] IN
                Answer(Response(200, TRUE, Object(PasteJson(r.id, st))),
                       Put(sto, r.id, st), nid)
      [] r.route = "highlight" ->
           IF ~found THEN missing
           ELSE Answer(Response(200, TRUE,
                          Object(With(NoFields, "content",
                                      Str("<pre>" \o sto[r.id].contents \o "</pre>")))),
                       sto, nid)
      [] r.route = "edit" ->
           IF ~found THEN missing
           ELSE IF r.who = "" \/ sto[r.id].user # r.who THEN refused
           ELSE LET st == [sto[r.id] EXCEPT
                              !.contents = FormValue(req.form, "contents"),
                              !.language = FormValue(req.form, "language"),
                              !.private = FormValue(req.form, "private") = "true"]
                IN  Answer(Response(200, TRUE, Object(PasteJson(r.id, st))),
                           Put(sto, r.id, st), nid)
      [] r.route = "fork" ->
           IF ~found THEN missing
           ELSE LET id == IdName(nid)
                    st == [sto[r.id] EXCEPT !.user = r.who, !.views = 0]
                IN  Answer(Response(201, TRUE, Object(PasteJson(id, st))),
                           Put(sto, id, st), nid + 1)
      [] r.route = "delete" ->
           IF ~found THEN missing
           ELSE IF r.who = "" \/ sto[r.id].user # r.who THEN refused
           ELSE Answer(Response(StatusNoContent, TRUE, Malformed),
                       Drop(sto, r.id), nid)

Service(req, sto, nid) == LET rs == {Route(req)} IN Serve(CHOOSE r \in rs : TRUE, req, sto, nid)

InitService ==
    /\ config \in Configs
    /\ paste \in CallerPastes
    /\ IdleClient
    /\ IdleService
    /\ IdleNewConfig

\* one call of operation o answered by the service
ServiceCall(o) ==
    \E a \in {Service(OpRequest(o, config, paste), store, nextId)} :
        /\ Call(o, a.response)
        /\ store' = a.store
        /\ nextId' = a.nextId

ServiceGet ==
    /\ calls < MaxServiceCalls
    /\ ServiceCall("Get")
    /\ UNCHANGED <<sent, deleted, ncVars>>

\* a Create that returns success records what its record held
ServiceCreate ==
    /\ calls < MaxServiceCalls
    /\ nextId <= MaxPastes
    /\ ServiceCall("Create")
    /\ sent' = IF err' = NilErr
               THEN Put(sent, IdName(nextId),
                        [Contents |-> paste.Contents, Language |-> paste.Language,
                         Private |-> paste.Private])
               ELSE sent
    /\ UNCHANGED <<deleted, ncVars>>

\* a Save that returns success ends the history of what Create sent
ServiceSave ==
    /\ calls < MaxServiceCalls
    /\ ServiceCall("Save")
    /\ sent' = IF err' = NilErr THEN Drop(sent, paste.ID) ELSE sent
    /\ UNCHANGED <<deleted, ncVars>>

\* a Delete that returns success is recorded
ServiceDelete ==
    /\ calls < MaxServiceCalls
    /\ ServiceCall("Delete")
    /\ deleted' = IF ~crashed' /\ err' = NilErr THEN deleted \cup {paste.ID}
                  ELSE deleted
    /\ UNCHANGED <<sent, ncVars>>

ServiceFork ==
    /\ calls < MaxServiceCalls
    /\ nextId <= MaxPastes
    /\ ServiceCall("Fork")
    /\ UNCHANGED <<sent, deleted, ncVars>>

ServiceGetHighlighted ==
    /\ calls < MaxServiceCalls
    /\ ServiceCall("GetHighlighted")
    /\ UNCHANGED <<sent, deleted, ncVars>>

\* between calls the caller starts a record that only names a paste,
\* Paste{ID: id}
CallerRefers ==
    /\ ~crashed
    /\ \E id \in DOMAIN store \cup deleted :
          paste' = [ZeroPaste EXCEPT !.ID = id]
    /\ op' = "none"
    /\ before' = paste'
    /\ UNCHANGED <<config, request, response, err, hl, toNil, crashed,
                   bodyState, calls, serviceVars, ncVars>>

\* the caller changes the contents of its record
CallerEdits ==
    /\ ~crashed
    /\ paste.Contents # "3 + 3"
    /\ paste' = [paste EXCEPT !.Contents = "3 + 3"]
    /\ op' = "none"
    /\ before' = paste'
    /\ UNCHANGED <<config, request, response, err, hl, toNil, crashed,
                   bodyState, calls, serviceVars, ncVars>>

NextService ==
    \/ ServiceGet \/ ServiceCreate \/ ServiceSave \/ ServiceDelete \/ ServiceFork
    \/ ServiceGetHighlighted \/ CallerRefers \/ CallerEdits

SpecService == InitService /\ [][NextService]_vars

----------------------------------------------------------------------------
(* Claims about NewConfig, under SpecNewConfig *)

\* C1: for an argument list of length 0, 1, 2 or 3 NewConfig returns a nil
\* error and the Config of the arity table: {RefheapURL, "", ""},
\* {args[0], "", ""}, {RefheapURL, args[0], args[1]}, {args[0], args[1], args[2]}
NewConfigArityTable ==
    ncDone /\ Len(args) \in 0..3 =>
        /\ ncErr = NilErr
        /\ Len(args) = 0 =>
             ncConfig = [URL |-> "https://www.refheap.com/api", User |-> "", Key |-> ""]
        /\ Len(args) = 1 =>
             ncConfig = [URL |-> args[1], User |-> "", Key |-> ""]
        /\ Len(args) = 2 =>
             ncConfig = [URL |-> "https://www.refheap.com/api", User |-> args[1],
                         Key |-> args[2]]
        /\ Len(args) = 3 =>
             ncConfig = [URL |-> args[1], User |-> args[2], Key |-> args[3]]

\* NewConfig("raynes", "foo") has returned {RefheapURL, "raynes", "foo"}
NewConfigTwoArgsReturned ==
    /\ ncDone
    /\ args = <<"raynes", "foo">>
    /\ ncErr = NilErr
    /\ ncConfig.User = "raynes"
    /\ ncConfig.Key = "foo"

\* C2: for an argument list of any other length NewConfig returns a
\* ConfigError whose Args is the whole argument list, and the zero Config
NewConfigRejectsOtherArities ==
    ncDone /\ Len(args) \notin 0..3 =>
        /\ ncErr.type = "ConfigError"
        /\ ncErr.Args = args
        /\ ncConfig = [URL |-> "", User |-> "", Key |-> ""]

\* NewConfig("foo", "raynes", "", "foo") has returned a ConfigError
NewConfigFourArgsRejected ==
    /\ ncDone
    /\ args = <<"foo", "raynes", "", "foo">>
    /\ ncErr.type = "ConfigError"

----------------------------------------------------------------------------
(* Claims about one call against any peer, under Spec *)

Mutating == {"Create", "Save", "Fork", "Delete"}
Decoding == {"Get", "Create", "Save", "Fork"}

\* the query string of the last DELETE: what follows config.URL/paste/ID?
CarriesAuth(req) ==
    IF req.method = "DELETE"
    THEN req.url = config.URL \o "/paste/" \o before.ID
                   \o "?token=" \o config.Key \o "&username=" \o config.User
    ELSE /\ {"username", "token"} \subseteq DOMAIN req.form
         /\ req.form["username"] = <<config.User>>
         /\ req.form["token"] = <<config.Key>>

CarriesNoAuth(req) ==
    IF req.method = "DELETE"
    THEN req.url = config.URL \o "/paste/" \o before.ID \o "?"
    ELSE {"username", "token"} \cap DOMAIN req.form = {}

\* C3: the request of Create, Save, Fork and Delete carries a username and
\* a token field if and only if Config.User is non-empty: neither when User
\* is empty, whatever Key is, and both when User is non-empty, even with an
\* empty Key
AuthAttachedIffUser ==
    op \in Mutating =>
        /\ config.User # "" => CarriesAuth(request)
        /\ config.User = "" => CarriesNoAuth(request)

\* a Save by a Config with a User and an empty Key sent both fields, and a
\* token of ""
SaveSentEmptyToken ==
    /\ op = "Save"
    /\ config.User = "raynes"
    /\ config.Key = ""
    /\ request.form["token"] = <<"">>
    /\ request.form["username"] = <<"raynes">>

\* C4 as claimed: whenever Get, Create, Save or Fork returns an error, the
\* Paste record is as it was before the call
NoPartialMutationOnFailure ==
    op \in Decoding /\ ~crashed /\ err # NilErr => paste = before

\* the body the last call read was an object whose error is the non-empty
\* string msg
ErrorBody(msg) ==
    /\ response.got
    /\ response.readOk
    /\ response.body.kind = "object"
    /\ response.body.fields["error"] = Str(msg)
    /\ msg # ""

\* the last call decoded its response: every operation but a Delete that
\* was answered 204
Decoded ==
    /\ op # "none"
    /\ response.got
    /\ op = "Delete" => response.StatusCode # 204

ErrorMessages == {"Paste does not exist."}

\* C5: when the body is well-formed JSON whose error is a non-empty string,
\* the operation that decodes it returns a RefheapError with exactly that
\* message, and nothing of the body reaches the Paste or the highlightedPaste
ServiceErrorSurfaced ==
    \A msg \in ErrorMessages :
        Decoded /\ ErrorBody(msg) =>
            /\ ~crashed
            /\ err.type = "RefheapError"
            /\ err.ErrorMessage = msg
            /\ paste = before
            /\ hl = [Content |-> ""]

\* a Get was answered with a whole paste that also carries an error: it
\* returned the RefheapError and left the record alone
GetReturnedServiceError ==
    /\ op = "Get"
    /\ ErrorBody("Paste does not exist.")
    /\ response.body.fields["contents"] = Str("(begin)")
    /\ before.Contents = "old"
    /\ err.type = "RefheapError"
    /\ paste.Contents = "old"

\* C6 as claimed: when the transport fails, every operation, Delete too,
\* returns the transport's error and does not crash
TransportErrorReturned ==
    op # "none" /\ ~response.got => ~crashed /\ err = TransportErr

\* C7 as claimed: Delete returns nil only for a 204 response; for any other
\* status it returns an error
DeleteSucceedsOnly204 ==
    op = "Delete" /\ response.got =>
        /\ response.StatusCode = 204 => err = NilErr /\ ~toNil
        /\ response.StatusCode # 204 => toNil /\ err # NilErr

\* C8 as claimed: after a successful Get, Create, Save or Fork the record is
\* what decoding the same body into an empty record gives
RecordReplacedOnSuccess ==
    op \in Decoding /\ response.got /\ ~crashed /\ err = NilErr =>
        paste = UnmarshalPaste(response.body, ZeroPaste).val

\* C11 as claimed: on every path on which a response was obtained, Delete's
\* 204 path too, the response body has been read to its end and closed when
\* the operation returns
BodyClosedOnEveryPath ==
    op # "none" /\ response.got /\ ~crashed => bodyState = "closed"

\* the form holds key k with the single value v
Holds(form, k, v) == k \in DOMAIN form /\ form[k] = <<v>>

\* C12: Create and Save post the same form for the same record and Config:
\* contents if and only if the record's Contents is non-empty, language if
\* and only if its Language is non-empty, private always, as "true" or
\* "false", and the auth fields, and nothing else; Create posts it to
\* {base}/paste whatever the record's ID is, Save to {base}/paste/{ID}
CreateAndSaveForm ==
    op \in {"Create", "Save"} =>
        /\ request.method = "POST"
        /\ DOMAIN request.form \subseteq
              {"contents", "language", "private", "username", "token"}
        /\ IF before.Contents # ""
           THEN Holds(request.form, "contents", before.Contents)
           ELSE "contents" \notin DOMAIN request.form
        /\ IF before.Language # ""
           THEN Holds(request.form, "language", before.Language)
           ELSE "language" \notin DOMAIN request.form
        /\ Holds(request.form, "private", IF before.Private THEN "true" ELSE "false")
        /\ IF config.User # ""
           THEN /\ Holds(request.form, "username", config.User)
                /\ Holds(request.form, "token", config.Key)
           ELSE {"username", "token"} \cap DOMAIN request.form = {}
        /\ op = "Create" => request.url = config.URL \o "/paste"
        /\ op = "Save" => request.url = config.URL \o "/paste/" \o before.ID

\* a Create of Paste{ID: "30000"} posted only private=false, to {base}/paste
CreatePostedOnlyPrivate ==
    /\ op = "Create"
    /\ before.ID = "30000"
    /\ before.Contents = ""
    /\ config.User = ""
    /\ DOMAIN request.form = {"private"}
    /\ request.form["private"] = <<"false">>
    /\ request.url = "https://www.refheap.com/api/paste"

\* C13: GetHighlighted leaves the Paste record as it was on every path
\* (success, service error, decode error, transport error), the rendered
\* content comes back only in the highlightedPaste it returns, and its
\* request, a GET of {base}/paste/{ID}/highlight, carries no username and no
\* token whatever the Config holds
GetHighlightedLeavesRecord ==
    op = "GetHighlighted" =>
        /\ ~crashed
        /\ paste = before
        /\ request.method = "GET"
        /\ request.form = <<>>
        /\ request.url = config.URL \o "/paste/" \o before.ID \o "/highlight"
        /\ response.got /\ err = NilErr /\ response.body.kind = "object"
           /\ response.body.fields["content"][1] = "str" =>
              hl.Content = response.body.fields["content"][2]
        /\ err # NilErr /\ err.type # "json.UnmarshalTypeError" => hl.Content = ""

\* an authenticated GetHighlighted was answered with a whole paste and
\* returned success with the caller's record untouched
GetHighlightedIgnoredPasteBody ==
    /\ op = "GetHighlighted"
    /\ config.User = "raynes"
    /\ config.Key = "123"
    /\ err = NilErr
    /\ response.body.fields["contents"] = Str("(begin)")
    /\ response.body.fields["error"] = Absent
    /\ before.Contents = "old"
    /\ paste.Contents = "old"
    /\ request.url = "https://www.refheap.com/api/paste/7/highlight"

----------------------------------------------------------------------------
(* Claims about sequences of calls against the storing service, under      *)
(* SpecService                                                             *)

\* C9: after a successful Create the record holds the identifier the
\* service assigned, its User is the Config's User, and its contents,
\* language and privacy are those sent; and every later successful Get of
\* that identifier, the first and the repeated ones, yields the contents,
\* language and privacy the Create sent
CreateGetRoundTrip ==
    /\ op = "Create" /\ ~crashed /\ err = NilErr =>
         /\ paste.ID = IdName(nextId - 1)
         /\ paste.ID \in DOMAIN store
         /\ paste.User = config.User
         /\ paste.Contents = before.Contents
         /\ paste.Language = before.Language
         /\ paste.Private = before.Private
    /\ op = "Get" /\ ~crashed /\ err = NilErr /\ before.ID \in DOMAIN sent =>
         /\ paste.ID = before.ID
         /\ paste.Contents = sent[before.ID].Contents
         /\ paste.Language = sent[before.ID].Language
         /\ paste.Private = sent[before.ID].Private

\* a paste created as "hi", Go, private was fetched by its identifier into
\* an empty record for the second time
FetchedTwiceAfterCreate ==
    /\ op = "Get"
    /\ err = NilErr
    /\ before = [ZeroPaste EXCEPT !.ID = "1"]
    /\ "1" \in DOMAIN sent
    /\ paste.Views = 2
    /\ paste.Contents = "hi"
    /\ paste.Language = "Go"
    /\ paste.Private

\* C10: once a Delete of an identifier has returned success, a later Get of
\* that identifier returns a RefheapError and leaves the record as it was
GetAfterDeleteFails ==
    op = "Get" /\ before.ID \in deleted =>
        /\ ~crashed
        /\ err.type = "RefheapError"
        /\ err.ErrorMessage # ""
        /\ paste = before

\* a Get of a deleted paste has returned the service's error
FetchedAfterDelete ==
    /\ op = "Get"
    /\ before.ID = "1"
    /\ deleted = {"1"}
    /\ err = RefheapError("Paste does not exist.")

====
